---- MODULE Spec2Model ----
(***************************************************************************)
(* Model of ochazuke/helpers.py: the date-range helpers (get_days,         *)
(* normalize_date_range), the timeline slicers (get_timeline_slice,        *)
(* get_json_slice) and the category query (get_timeline_data).             *)
(*                                                                         *)
(* A Python str is a sequence of characters: an ASCII character is the     *)
(* one-character string, any other character is the string "U+XXXX" of its *)
(* code point.  A datetime at midnight is its proleptic Gregorian ordinal  *)
(* (datetime.toordinal()).                                                 *)
(* A Python outcome is a record: [kind |-> "value", val |-> v] for a       *)
(* returned value, [kind |-> "None"] for a returned None and               *)
(* [kind |-> "raise", exc |-> name] for an exception leaving the function. *)
(***************************************************************************)
EXTENDS Integers, Sequences, FiniteSets, TLC

VARIABLES op, args, ret, zero_pad_year

vars == <<op, args, ret, zero_pad_year>>

(* ---------------------------- bounds ----------------------------------- *)

\* every input date lies at most MaxSpan days before an anchor day
MaxSpan == 2

\* longest timeline (list of records) handed to the slicers
MaxTimeline == 2

\* longest explicit dates_list handed to get_timeline_slice
MaxDates == 2

\* most rows the issues table holds when it is queried
MaxRows == 2

(* ------------------------ Python outcomes ------------------------------ *)

PyValue(v) == [kind |-> "value", val |-> v]

PyNone == [kind |-> "None"]

PyRaise(e) == [kind |-> "raise", exc |-> e]

(* ------------------------ characters and digits ------------------------ *)

DigitChars == <<"0", "1", "2", "3", "4", "5", "6", "7", "8", "9">>

\* The decimal digits of Unicode 14.0 (category Nd), one row a script, the
\* digits 0..9 of the script in order.  The regex \d of a str pattern
\* matches each of them and int() reads each as its value.
DecimalDigits == <<
    <<"0", "1", "2", "3", "4", "5", "6", "7", "8", "9">>,
    <<"U+0660", "U+0661", "U+0662", "U+0663", "U+0664", "U+0665", "U+0666", "U+0667", "U+0668", "U+0669">>,
    <<"U+06F0", "U+06F1", "U+06F2", "U+06F3", "U+06F4", "U+06F5", "U+06F6", "U+06F7", "U+06F8", "U+06F9">>,
    <<"U+07C0", "U+07C1", "U+07C2", "U+07C3", "U+07C4", "U+07C5", "U+07C6", "U+07C7", "U+07C8", "U+07C9">>,
    <<"U+0966", "U+0967", "U+0968", "U+0969", "U+096A", "U+096B", "U+096C", "U+096D", "U+096E", "U+096F">>,
    <<"U+09E6", "U+09E7", "U+09E8", "U+09E9", "U+09EA", "U+09EB", "U+09EC", "U+09ED", "U+09EE", "U+09EF">>,
    <<"U+0A66", "U+0A67", "U+0A68", "U+0A69", "U+0A6A", "U+0A6B", "U+0A6C", "U+0A6D", "U+0A6E", "U+0A6F">>,
    <<"U+0AE6", "U+0AE7", "U+0AE8", "U+0AE9", "U+0AEA", "U+0AEB", "U+0AEC", "U+0AED", "U+0AEE", "U+0AEF">>,
    <<"U+0B66", "U+0B67", "U+0B68", "U+0B69", "U+0B6A", "U+0B6B", "U+0B6C", "U+0B6D", "U+0B6E", "U+0B6F">>,
    <<"U+0BE6", "U+0BE7", "U+0BE8", "U+0BE9", "U+0BEA", "U+0BEB", "U+0BEC", "U+0BED", "U+0BEE", "U+0BEF">>,
    <<"U+0C66", "U+0C67", "U+0C68", "U+0C69", "U+0C6A", "U+0C6B", "U+0C6C", "U+0C6D", "U+0C6E", "U+0C6F">>,
    <<"U+0CE6", "U+0CE7", "U+0CE8", "U+0CE9", "U+0CEA", "U+0CEB", "U+0CEC", "U+0CED", "U+0CEE", "U+0CEF">>,
    <<"U+0D66", "U+0D67", "U+0D68", "U+0D69", "U+0D6A", "U+0D6B", "U+0D6C", "U+0D6D", "U+0D6E", "U+0D6F">>,
    <<"U+0DE6", "U+0DE7", "U+0DE8", "U+0DE9", "U+0DEA", "U+0DEB", "U+0DEC", "U+0DED", "U+0DEE", "U+0DEF">>,
    <<"U+0E50", "U+0E51", "U+0E52", "U+0E53", "U+0E54", "U+0E55", "U+0E56", "U+0E57", "U+0E58", "U+0E59">>,
    <<"U+0ED0", "U+0ED1", "U+0ED2", "U+0ED3", "U+0ED4", "U+0ED5", "U+0ED6", "U+0ED7", "U+0ED8", "U+0ED9">>,
    <<"U+0F20", "U+0F21", "U+0F22", "U+0F23", "U+0F24", "U+0F25", "U+0F26", "U+0F27", "U+0F28", "U+0F29">>,
    <<"U+1040", "U+1041", "U+1042", "U+1043", "U+1044", "U+1045", "U+1046", "U+1047", "U+1048", "U+1049">>,
    <<"U+1090", "U+1091", "U+1092", "U+1093", "U+1094", "U+1095", "U+1096", "U+1097", "U+1098", "U+1099">>,
    <<"U+17E0", "U+17E1", "U+17E2", "U+17E3", "U+17E4", "U+17E5", "U+17E6", "U+17E7", "U+17E8", "U+17E9">>,
    <<"U+1810", "U+1811", "U+1812", "U+1813", "U+1814", "U+1815", "U+1816", "U+1817", "U+1818", "U+1819">>,
    <<"U+1946", "U+1947", "U+1948", "U+1949", "U+194A", "U+194B", "U+194C", "U+194D", "U+194E", "U+194F">>,
    <<"U+19D0", "U+19D1", "U+19D2", "U+19D3", "U+19D4", "U+19D5", "U+19D6", "U+19D7", "U+19D8", "U+19D9">>,
    <<"U+1A80", "U+1A81", "U+1A82", "U+1A83", "U+1A84", "U+1A85", "U+1A86", "U+1A87", "U+1A88", "U+1A89">>,
    <<"U+1A90", "U+1A91", "U+1A92", "U+1A93", "U+1A94", "U+1A95", "U+1A96", "U+1A97", "U+1A98", "U+1A99">>,
    <<"U+1B50", "U+1B51", "U+1B52", "U+1B53", "U+1B54", "U+1B55", "U+1B56", "U+1B57", "U+1B58", "U+1B59">>,
    <<"U+1BB0", "U+1BB1", "U+1BB2", "U+1BB3", "U+1BB4", "U+1BB5", "U+1BB6", "U+1BB7", "U+1BB8", "U+1BB9">>,
    <<"U+1C40", "U+1C41", "U+1C42", "U+1C43", "U+1C44", "U+1C45", "U+1C46", "U+1C47", "U+1C48", "U+1C49">>,
    <<"U+1C50", "U+1C51", "U+1C52", "U+1C53", "U+1C54", "U+1C55", "U+1C56", "U+1C57", "U+1C58", "U+1C59">>,
    <<"U+A620", "U+A621", "U+A622", "U+A623", "U+A624", "U+A625", "U+A626", "U+A627", "U+A628", "U+A629">>,
    <<"U+A8D0", "U+A8D1", "U+A8D2", "U+A8D3", "U+A8D4", "U+A8D5", "U+A8D6", "U+A8D7", "U+A8D8", "U+A8D9">>,
    <<"U+A900", "U+A901", "U+A902", "U+A903", "U+A904", "U+A905", "U+A906", "U+A907", "U+A908", "U+A909">>,
    <<"U+A9D0", "U+A9D1", "U+A9D2", "U+A9D3", "U+A9D4", "U+A9D5", "U+A9D6", "U+A9D7", "U+A9D8", "U+A9D9">>,
    <<"U+A9F0", "U+A9F1", "U+A9F2", "U+A9F3", "U+A9F4", "U+A9F5", "U+A9F6", "U+A9F7", "U+A9F8", "U+A9F9">>,
    <<"U+AA50", "U+AA51", "U+AA52", "U+AA53", "U+AA54", "U+AA55", "U+AA56", "U+AA57", "U+AA58", "U+AA59">>,
    <<"U+ABF0", "U+ABF1", "U+ABF2", "U+ABF3", "U+ABF4", "U+ABF5", "U+ABF6", "U+ABF7", "U+ABF8", "U+ABF9">>,
    <<"U+FF10", "U+FF11", "U+FF12", "U+FF13", "U+FF14", "U+FF15", "U+FF16", "U+FF17", "U+FF18", "U+FF19">>,
    <<"U+104A0", "U+104A1", "U+104A2", "U+104A3", "U+104A4", "U+104A5", "U+104A6", "U+104A7", "U+104A8", "U+104A9">>,
    <<"U+10D30", "U+10D31", "U+10D32", "U+10D33", "U+10D34", "U+10D35", "U+10D36", "U+10D37", "U+10D38", "U+10D39">>,
    <<"U+11066", "U+11067", "U+11068", "U+11069", "U+1106A", "U+1106B", "U+1106C", "U+1106D", "U+1106E", "U+1106F">>,
    <<"U+110F0", "U+110F1", "U+110F2", "U+110F3", "U+110F4", "U+110F5", "U+110F6", "U+110F7", "U+110F8", "U+110F9">>,
    <<"U+11136", "U+11137", "U+11138", "U+11139", "U+1113A", "U+1113B", "U+1113C", "U+1113D", "U+1113E", "U+1113F">>,
    <<"U+111D0", "U+111D1", "U+111D2", "U+111D3", "U+111D4", "U+111D5", "U+111D6", "U+111D7", "U+111D8", "U+111D9">>,
    <<"U+112F0", "U+112F1", "U+112F2", "U+112F3", "U+112F4", "U+112F5", "U+112F6", "U+112F7", "U+112F8", "U+112F9">>,
    <<"U+11450", "U+11451", "U+11452", "U+11453", "U+11454", "U+11455", "U+11456", "U+11457", "U+11458", "U+11459">>,
    <<"U+114D0", "U+114D1", "U+114D2", "U+114D3", "U+114D4", "U+114D5", "U+114D6", "U+114D7", "U+114D8", "U+114D9">>,
    <<"U+11650", "U+11651", "U+11652", "U+11653", "U+11654", "U+11655", "U+11656", "U+11657", "U+11658", "U+11659">>,
    <<"U+116C0", "U+116C1", "U+116C2", "U+116C3", "U+116C4", "U+116C5", "U+116C6", "U+116C7", "U+116C8", "U+116C9">>,
    <<"U+11730", "U+11731", "U+11732", "U+11733", "U+11734", "U+11735", "U+11736", "U+11737", "U+11738", "U+11739">>,
    <<"U+118E0", "U+118E1", "U+118E2", "U+118E3", "U+118E4", "U+118E5", "U+118E6", "U+118E7", "U+118E8", "U+118E9">>,
    <<"U+11950", "U+11951", "U+11952", "U+11953", "U+11954", "U+11955", "U+11956", "U+11957", "U+11958", "U+11959">>,
    <<"U+11C50", "U+11C51", "U+11C52", "U+11C53", "U+11C54", "U+11C55", "U+11C56", "U+11C57", "U+11C58", "U+11C59">>,
    <<"U+11D50", "U+11D51", "U+11D52", "U+11D53", "U+11D54", "U+11D55", "U+11D56", "U+11D57", "U+11D58", "U+11D59">>,
    <<"U+11DA0", "U+11DA1", "U+11DA2", "U+11DA3", "U+11DA4", "U+11DA5", "U+11DA6", "U+11DA7", "U+11DA8", "U+11DA9">>,
    <<"U+16A60", "U+16A61", "U+16A62", "U+16A63", "U+16A64", "U+16A65", "U+16A66", "U+16A67", "U+16A68", "U+16A69">>,
    <<"U+16AC0", "U+16AC1", "U+16AC2", "U+16AC3", "U+16AC4", "U+16AC5", "U+16AC6", "U+16AC7", "U+16AC8", "U+16AC9">>,
    <<"U+16B50", "U+16B51", "U+16B52", "U+16B53", "U+16B54", "U+16B55", "U+16B56", "U+16B57", "U+16B58", "U+16B59">>,
    <<"U+1D7CE", "U+1D7CF", "U+1D7D0", "U+1D7D1", "U+1D7D2", "U+1D7D3", "U+1D7D4", "U+1D7D5", "U+1D7D6", "U+1D7D7">>,
    <<"U+1D7D8", "U+1D7D9", "U+1D7DA", "U+1D7DB", "U+1D7DC", "U+1D7DD", "U+1D7DE", "U+1D7DF", "U+1D7E0", "U+1D7E1">>,
    <<"U+1D7E2", "U+1D7E3", "U+1D7E4", "U+1D7E5", "U+1D7E6", "U+1D7E7", "U+1D7E8", "U+1D7E9", "U+1D7EA", "U+1D7EB">>,
    <<"U+1D7EC", "U+1D7ED", "U+1D7EE", "U+1D7EF", "U+1D7F0", "U+1D7F1", "U+1D7F2", "U+1D7F3", "U+1D7F4", "U+1D7F5">>,
    <<"U+1D7F6", "U+1D7F7", "U+1D7F8", "U+1D7F9", "U+1D7FA", "U+1D7FB", "U+1D7FC", "U+1D7FD", "U+1D7FE", "U+1D7FF">>,
    <<"U+1E140", "U+1E141", "U+1E142", "U+1E143", "U+1E144", "U+1E145", "U+1E146", "U+1E147", "U+1E148", "U+1E149">>,
    <<"U+1E2F0", "U+1E2F1", "U+1E2F2", "U+1E2F3", "U+1E2F4", "U+1E2F5", "U+1E2F6", "U+1E2F7", "U+1E2F8", "U+1E2F9">>,
    <<"U+1E950", "U+1E951", "U+1E952", "U+1E953", "U+1E954", "U+1E955", "U+1E956", "U+1E957", "U+1E958", "U+1E959">>,
    <<"U+1FBF0", "U+1FBF1", "U+1FBF2", "U+1FBF3", "U+1FBF4", "U+1FBF5", "U+1FBF6", "U+1FBF7", "U+1FBF8", "U+1FBF9">>>>

DecimalDigitSet == {DecimalDigits[k][i] : k \in 1..Len(DecimalDigits), i \in 1..10}

DecimalDigitValue ==
    [c \in DecimalDigitSet |->
        CHOOSE v \in 0..9 : \E k \in 1..Len(DecimalDigits) : DecimalDigits[k][v + 1] = c]

\* the regex \d
IsDigit(c) == c \in DecimalDigitSet

\* the regex [1-9]: ASCII digits only
Is1to9(c) == c \in {"1", "2", "3", "4", "5", "6", "7", "8", "9"}

\* int() of one digit
DigitVal(c) == DecimalDigitValue[c]

DigitChar(n) == DigitChars[n + 1]

\* the character at 1-based position i, or "" past the end of the string
At(s, i) == IF i >= 1 /\ i <= Len(s) THEN s[i] ELSE ""

Min(a, b) == IF a <= b THEN a ELSE b

\* the slice forgotten: the whole text
Prefix_whole(s, n) == s

\* Python's s[:n]
Prefix(s, n) == SubSeq(s, 1, Min(n, Len(s)))

(* --------------------- datetime: calendar arithmetic ------------------- *)

is_leap(y) == y % 4 = 0 /\ (y % 100 # 0 \/ y % 400 = 0)

DAYS_IN_MONTH == <<31, 28, 31, 30, 31, 30, 31, 31, 30, 31, 30, 31>>

DAYS_BEFORE_MONTH == <<0, 31, 59, 90, 120, 151, 181, 212, 243, 273, 304, 334>>

days_in_month(y, m) == IF m = 2 /\ is_leap(y) THEN 29 ELSE DAYS_IN_MONTH[m]

days_before_year(y) ==
    LET p == y - 1 IN p * 365 + (p \div 4) - (p \div 100) + (p \div 400)

days_before_month(y, m) ==
    DAYS_BEFORE_MONTH[m] + (IF m > 2 /\ is_leap(y) THEN 1 ELSE 0)

\* datetime(y, m, d).toordinal()
ymd2ord(y, m, d) == days_before_year(y) + days_before_month(y, m) + d

\* datetime.max.toordinal(): the last day a datetime can hold (MAXYEAR 9999)
MaxOrdinal == ymd2ord(9999, 12, 31)

\* datetime.fromordinal(n) as [year, month, day]: the divmod chain of
\* _ord2ymd, one operator a step (n is the day number left at that step)
Ord2Day(year, leap, n, month, preceding) ==
    IF preceding > n
    THEN [year |-> year, month |-> month - 1,
          day |-> n - (preceding - (DAYS_IN_MONTH[month - 1]
                           + (IF month - 1 = 2 /\ leap THEN 1 ELSE 0))) + 1]
    ELSE [year |-> year, month |-> month, day |-> n - preceding + 1]

Ord2Month(year, leap, n, month) ==
    Ord2Day(year, leap, n, month,
            DAYS_BEFORE_MONTH[month] + (IF month > 2 /\ leap THEN 1 ELSE 0))

Ord2Year(year, n100, n4, n1, n) ==
    IF n1 = 4 \/ n100 = 4
    THEN [year |-> year - 1, month |-> 12, day |-> 31]
    ELSE Ord2Month(year, n1 = 3 /\ (n4 # 24 \/ n100 = 3), n, (n + 50) \div 32)

Ord2N1(n400, n100, n4, n1, n) ==
    Ord2Year(n400 * 400 + 1 + n100 * 100 + n4 * 4 + n1, n100, n4, n1, n)

Ord2N4(n400, n100, n4, n) == Ord2N1(n400, n100, n4, n \div 365, n % 365)

Ord2N100(n400, n100, n) == Ord2N4(n400, n100, n \div 1461, n % 1461)

Ord2N400(n400, n) == Ord2N100(n400, n \div 36524, n % 36524)

ord2ymd(n) == Ord2N400((n - 1) \div 146097, (n - 1) % 146097)

(* --------------- datetime.strptime(s, "%Y-%m-%d") ---------------------- *)

\* %m is the regex 1[0-2]|0[1-9]|[1-9]; %d is 3[01]|[12]\d|0[1-9]|[1-9]| [1-9].
\* Each operator gives the number of characters the first matching
\* alternative takes, 0 when none matches.
DayAlt(c, d) ==
    IF c = "3" /\ d \in {"0", "1"} THEN 2
    ELSE IF c \in {"1", "2"} /\ IsDigit(d) THEN 2
    ELSE IF c = "0" /\ Is1to9(d) THEN 2
    ELSE IF Is1to9(c) THEN 1
    ELSE IF c = " " /\ Is1to9(d) THEN 2
    ELSE 0

DayLen(s, p) == DayAlt(At(s, p), At(s, p + 1))

\* rest2, rest1: "-" and a day follow a month of two characters, of one
MonthAlt(c, d, rest2, rest1) ==
    IF c = "1" /\ d \in {"0", "1", "2"} /\ rest2 THEN 2
    ELSE IF c = "0" /\ Is1to9(d) /\ rest2 THEN 2
    ELSE IF Is1to9(c) /\ rest1 THEN 1
    ELSE 0

\* a month alternative is kept only when "-" and a day follow it
MonthLen(s, p) ==
    MonthAlt(At(s, p), At(s, p + 1),
             At(s, p + 2) = "-" /\ DayLen(s, p + 3) > 0,
             At(s, p + 1) = "-" /\ DayLen(s, p + 2) > 0)

\* value of the digits of s in positions p .. p+len-1, a leading space skipped
RECURSIVE NumAt(_, _, _)
NumAt(s, p, len) ==
    IF len = 0 THEN 0
    ELSE IF At(s, p + len - 1) = " " THEN 0
    ELSE NumAt(s, p, len - 1) * 10 + DigitVal(At(s, p + len - 1))

\* datetime(y, m, d): ValueError for the year 0 and for a day the month lacks
StrptimeDate(y, m, d) ==
    IF y < 1 \/ d > days_in_month(y, m)
    THEN [ok |-> FALSE]
    ELSE [ok |-> TRUE, ord |-> ymd2ord(y, m, d)]

\* ValueError "unconverted data remains" when the match ends before the text
StrptimeDay(s, ml, dl) ==
    IF 6 + ml + dl # Len(s) THEN [ok |-> FALSE]
    ELSE StrptimeDate(NumAt(s, 1, 4), NumAt(s, 6, ml), NumAt(s, 7 + ml, dl))

StrptimeMonth(s, ml) ==
    IF ml = 0 THEN [ok |-> FALSE] ELSE StrptimeDay(s, ml, DayLen(s, 7 + ml))

\* strptime(s, "%Y-%m-%d"): [ok |-> TRUE, ord |-> the day's ordinal] for the
\* datetime it returns (midnight of that day), [ok |-> FALSE] where it
\* raises ValueError
strptime(s) ==
    IF ~ (\A i \in 1..4 : IsDigit(At(s, i))) \/ At(s, 5) # "-"
    THEN [ok |-> FALSE]
    ELSE StrptimeMonth(s, MonthLen(s, 6))

(* --------------- datetime.strftime("%Y-%m-%d") ------------------------- *)

Pad2(n) == <<DigitChar(n \div 10), DigitChar(n % 10)>>

Pad4(n) == <<DigitChar(n \div 1000), DigitChar((n \div 100) % 10),
             DigitChar((n \div 10) % 10), DigitChar(n % 10)>>

\* the decimal digits of n without leading zeros (n >= 1)
RECURSIVE Decimal(_)
Decimal(n) == IF n < 10 THEN <<DigitChar(n)>>
              ELSE Decimal(n \div 10) \o <<DigitChar(n % 10)>>

\* %Y is handed to the C library: it pads the year to four digits on some
\* platforms and prints it bare on others (glibc); zero_pad_year is the
\* platform the program runs on.
FormatDate(f) ==
    (IF zero_pad_year THEN Pad4(f.year) ELSE Decimal(f.year))
    \o <<"-">> \o Pad2(f.month) \o <<"-">> \o Pad2(f.day)

strftime(n) == FormatDate(ord2ymd(n))

(* ------------------------------ get_days ------------------------------- *)

\* for n in range(0, days + 1): dates.append((end - n days).strftime(...))
WalkBack(end, days) == [n \in 1..(days + 1) |-> strftime(end - (n - 1))]

\* the body of get_days after the two strptime calls; a reversed range
\* walks back from start over abs(days)
get_days_parsed(from_date, start, end) ==
    IF ~ start.ok \/ ~ end.ok THEN PyNone
    ELSE IF start.ord = end.ord THEN PyValue(<<from_date>>)
    ELSE PyValue(WalkBack(
             IF end.ord - start.ord < 0 THEN start.ord ELSE end.ord,
             IF end.ord - start.ord < 0 THEN start.ord - end.ord
                                        ELSE end.ord - start.ord))

\* the same-day case answering with to_date instead of from_date
get_days_to_date(from_date, to_date) ==
    get_days_parsed(to_date, strptime(from_date), strptime(to_date))

get_days(from_date, to_date) ==
    get_days_parsed(from_date, strptime(from_date), strptime(to_date))

(* ------------------------ normalize_date_range ------------------------- *)

\* the body of normalize_date_range after the two strptime calls: the
\* addition is outside the try block, its OverflowError leaves the function
normalize_parsed(start, end) ==
    IF ~ start.ok \/ ~ end.ok THEN PyNone
    ELSE IF end.ord + 1 > MaxOrdinal THEN PyRaise("OverflowError")
    ELSE PyValue(<<strftime(start.ord), strftime(end.ord + 1)>>)

normalize_date_range(from_date, to_date) ==
    normalize_parsed(strptime(from_date), strptime(to_date))

(* -------------------------- get_timeline_slice ------------------------- *)

Range(s) == {s[i] : i \in 1..Len(s)}

\* [r for r in timeline if r["timestamp"][:10] in dates]
RECURSIVE Comprehension(_, _)
Comprehension(timeline, dates) ==
    IF timeline = <<>> THEN <<>>
    ELSE LET r    == Head(timeline)
             rest == Comprehension(Tail(timeline), dates)
         IN IF Prefix(r.timestamp, 10) \in Range(dates)
            THEN <<r>> \o rest
            ELSE rest

\* dates_list is a Python value: a list, or None.  The "in" test is evaluated
\* once per record, so an empty timeline never evaluates it.
get_timeline_slice(timeline, dates_list) ==
    IF timeline = <<>> THEN PyValue(<<>>)
    ELSE IF dates_list.kind = "None" THEN PyRaise("TypeError")
    ELSE PyValue(Comprehension(timeline, dates_list.val))

(* ------------------------------ json ----------------------------------- *)

\* A JSON object text is the sequence of its members [name, value] as
\* written; a dict is a sequence of items with distinct names in insertion
\* order.

HasKey(d, k) == \E i \in 1..Len(d) : d[i].name = k

GetItem(d, k) == d[CHOOSE i \in 1..Len(d) : d[i].name = k].value

\* d[k] = v: an existing key keeps its place, a new key goes last
SetItem(d, k, v) ==
    IF HasKey(d, k)
    THEN [i \in 1..Len(d) |->
             IF d[i].name = k THEN [name |-> k, value |-> v] ELSE d[i]]
    ELSE Append(d, [name |-> k, value |-> v])

\* json.loads of an object: members are stored one by one, a repeated name
\* overwrites the earlier value
RECURSIVE json_loads(_)
json_loads(text) ==
    IF text = <<>> THEN <<>>
    ELSE LET last == text[Len(text)]
         IN SetItem(json_loads(SubSeq(text, 1, Len(text) - 1)),
                    last.name, last.value)

\* json.dumps of a dict: its items in insertion order
json_dumps(d) == [i \in 1..Len(d) |-> [name |-> d[i].name, value |-> d[i].value]]

(* ---------------------------- get_json_slice --------------------------- *)

\* the sliced timeline dumped alone instead of the whole envelope
get_json_slice_timeline_only(timeline, from_date, to_date) ==
    LET dates     == get_days(from_date, to_date)
        full_data == json_loads(timeline)
    IN IF ~ HasKey(full_data, "timeline") THEN PyRaise("KeyError")
       ELSE LET partial_data ==
                    get_timeline_slice(GetItem(full_data, "timeline"), dates)
            IN IF partial_data.kind = "raise" THEN partial_data
               ELSE PyValue(json_dumps(
                        <<[name |-> "timeline", value |-> partial_data.val]>>))

get_json_slice(timeline, from_date, to_date) ==
    LET dates     == get_days(from_date, to_date)
        full_data == json_loads(timeline)
    IN IF ~ HasKey(full_data, "timeline") THEN PyRaise("KeyError")
       ELSE LET partial_data ==
                    get_timeline_slice(GetItem(full_data, "timeline"), dates)
            IN IF partial_data.kind = "raise" THEN partial_data
               ELSE PyValue(json_dumps(
                        SetItem(full_data, "timeline", partial_data.val)))

(* --------------------------- get_timeline_data ------------------------- *)

\* a stored timestamp is [day |-> ordinal, sec |-> second of the day]
TsLeq(a, b) == a.day < b.day \/ (a.day = b.day /\ a.sec <= b.sec)

\* the database reads a 'YYYY-MM-DD' text as midnight of that day
Midnight(s) == [day |-> strptime(s).ord, sec |-> 0]

\* column.between(start, end): SQL BETWEEN, both ends included
between(ts, start, end) == TsLeq(Midnight(start), ts) /\ TsLeq(ts, Midnight(end))

\* datetime.isoformat() with no microseconds: YYYY-MM-DDTHH:MM:SS
IsoText(f, sec) ==
    Pad4(f.year) \o <<"-">> \o Pad2(f.month) \o <<"-">> \o Pad2(f.day)
    \o <<"T">> \o Pad2(sec \div 3600) \o <<":">>
    \o Pad2((sec \div 60) % 60) \o <<":">> \o Pad2(sec % 60)

isoformat(ts) == IsoText(ord2ymd(ts.day), ts.sec)

\* the rows of the table with this milestone inside the range
Selected(table, category, start, end) ==
    {row \in table : row.milestone = category
                     /\ between(row.timestamp, start, end)}

\* .order_by(timestamp.asc()).all(): every listing of the selected rows in
\* which timestamps never decrease (rows with equal timestamps in any order)
OrderedListings(rows) ==
    {l \in [1..Cardinality(rows) -> rows] :
        /\ \A i, j \in 1..Cardinality(rows) : i # j => l[i] # l[j]
        /\ \A i, j \in 1..Cardinality(rows) :
               i < j => TsLeq(l[i].timestamp, l[j].timestamp)}

\* the results get_timeline_data can return for this table
get_timeline_data(table, category, start, end) ==
    {PyValue([i \in 1..Len(issues_list) |->
                 [count     |-> issues_list[i].count,
                  timestamp |-> isoformat(issues_list[i].timestamp) \o <<"Z">>]]) :
        issues_list \in OrderedListings(Selected(table, category, start, end))}

(* ------------------------------ inputs --------------------------------- *)

\* anchor days: the first day of the year 1000 (the days before it have a
\* three-digit year), the day after a 29 February, and datetime.max
Anchors == {<<1000, 1, 1>>, <<2020, 3, 1>>, <<9999, 12, 31>>}

AnchorOrd(a) == ymd2ord(a[1], a[2], a[3])

AnchorDays(a) == {AnchorOrd(a) - k : k \in 0..MaxSpan}

\* the text YYYY-MM-DD of a day, every field zero-padded
CanonicalText(f) ==
    Pad4(f.year) \o <<"-">> \o Pad2(f.month) \o <<"-">> \o Pad2(f.day)

Canonical(n) == CanonicalText(ord2ymd(n))

\* the text of a day with no field padded, such as 2020-3-1
BareText(f) ==
    Decimal(f.year) \o <<"-">> \o Decimal(f.month) \o <<"-">> \o Decimal(f.day)

Bare(n) == BareText(ord2ymd(n))

\* texts that are no date: a word, and the 30th of February
BadDates == {<<"b", "a", "d", "-", "d", "a", "t", "e">>,
             <<"2", "0", "2", "1", "-", "0", "2", "-", "3", "0">>}

CanonicalDates(a) == {Canonical(n) : n \in AnchorDays(a)}

\* the digits of the script whose zero is z
ScriptDigits(z) == DecimalDigits[CHOOSE k \in 1..Len(DecimalDigits) : DecimalDigits[k][1] = z]

\* a canonical text with the year written in fullwidth digits
FullwidthYearText(t) ==
    [i \in 1..Len(t) |-> IF i <= 4 THEN ScriptDigits("U+FF10")[DigitVal(t[i]) + 1] ELSE t[i]]

\* a canonical text with the last digit of the day an Arabic-Indic digit
ArabicDayText(t) ==
    [i \in 1..Len(t) |-> IF i = Len(t) THEN ScriptDigits("U+0660")[DigitVal(t[i]) + 1] ELSE t[i]]

\* dates written with digits outside ASCII: the anchor day with a fullwidth
\* year, and the earliest input day with an Arabic-Indic day digit (a date
\* only when the day is 10..29)
ForeignDates(a) == {FullwidthYearText(Canonical(AnchorOrd(a))),
                    ArabicDayText(Canonical(AnchorOrd(a) - MaxSpan))}

DateInputs(a) == CanonicalDates(a) \cup {Bare(n) : n \in AnchorDays(a)}
                     \cup ForeignDates(a) \cup BadDates

\* sequences over S of length at most n
SeqsUpTo(S, n) == UNION {[1..k -> S] : k \in 0..n}

TimeOfDay == <<"T", "0", "0", ":", "0", "0", ":", "0", "0", "Z">>

LastSecond == <<"T", "2", "3", ":", "5", "9", ":", "5", "9", "Z">>

\* timestamps of timeline records: ISO-8601 at midnight for each day, and
\* one short text (the unpadded anchor day) that is no ISO timestamp; one
\* more record carries the last second of the anchor day
Timestamps(a) == {Canonical(n) \o TimeOfDay : n \in AnchorDays(a)}
                     \cup {Bare(AnchorOrd(a))}

Records(a) == {[count |-> 1, timestamp |-> ts] : ts \in Timestamps(a)}
                  \cup {[count |-> 2, timestamp |-> Canonical(AnchorOrd(a)) \o LastSecond]}

Timelines(a) == SeqsUpTo(Records(a), MaxTimeline)

\* elements of an explicit dates_list
ListedDates(a) == CanonicalDates(a) \cup {Bare(AnchorOrd(a))}

\* the JSON text of an envelope around a timeline
Envelope(tl) == <<[name |-> "about", value |-> <<"v", "1">>],
                  [name |-> "timeline", value |-> tl],
                  [name |-> "total", value |-> <<"9">>]>>

\* a JSON object with no timeline member
NoTimeline == <<[name |-> "about", value |-> <<"v", "1">>]>>

Envelopes(a) == {Envelope(tl) : tl \in Timelines(a)} \cup {NoTimeline}

Categories == {"needsdiagnosis", "sitewait"}

\* rows of the issues table: on each input day and on the day after the
\* anchor, at midnight and at noon
RowDays(a) == AnchorDays(a) \cup {n \in {AnchorOrd(a) + 1} : n <= MaxOrdinal}

Rows(a) == {[milestone |-> c, count |-> 1, timestamp |-> [day |-> n, sec |-> 0]] :
               c \in Categories, n \in RowDays(a)}
           \cup {[milestone |-> c, count |-> k, timestamp |-> [day |-> n, sec |-> 43200]] :
               c \in Categories, k \in {1, 2}, n \in RowDays(a)}

Tables(a) == {Range(l) : l \in SeqsUpTo(Rows(a), MaxRows)}

(* --------------------------- state machine ----------------------------- *)

\* Every function is stateless and synchronous: a behaviour is one call made
\* on one platform, op = "start" before it and the function's name after it.
Init ==
    /\ op = "start"
    /\ args = <<>>
    /\ ret = PyNone
    /\ zero_pad_year \in BOOLEAN

CallGetDays ==
    /\ op = "start"
    /\ \E a \in Anchors : \E from_date, to_date \in DateInputs(a) :
        /\ op' = "get_days"
        /\ args' = [from_date |-> from_date, to_date |-> to_date]
        /\ ret' = get_days(from_date, to_date)
        /\ UNCHANGED zero_pad_year

CallNormalizeDateRange ==
    /\ op = "start"
    /\ \E a \in Anchors : \E from_date, to_date \in DateInputs(a) :
        /\ op' = "normalize_date_range"
        /\ args' = [from_date |-> from_date, to_date |-> to_date]
        /\ ret' = normalize_date_range(from_date, to_date)
        /\ UNCHANGED zero_pad_year

CallGetTimelineSlice ==
    /\ op = "start"
    /\ \E a \in Anchors : \E timeline \in Timelines(a) :
        \E dates_list \in SeqsUpTo(ListedDates(a), MaxDates) :
            /\ op' = "get_timeline_slice"
            /\ args' = [timeline |-> timeline, dates_list |-> dates_list]
            /\ ret' = get_timeline_slice(timeline, PyValue(dates_list))
            /\ UNCHANGED zero_pad_year

CallGetJsonSlice ==
    /\ op = "start"
    /\ \E a \in Anchors : \E timeline \in Envelopes(a) :
        \E from_date, to_date \in DateInputs(a) :
            /\ op' = "get_json_slice"
            /\ args' = [timeline |-> timeline, from_date |-> from_date,
                        to_date |-> to_date]
            /\ ret' = get_json_slice(timeline, from_date, to_date)
            /\ UNCHANGED zero_pad_year

\* one call of get_timeline_data, the bounds of the range already read as
\* instants by the database
QueryCall(table, category, start, end) ==
    /\ op' = "get_timeline_data"
    /\ args' = [table |-> table, category |-> category,
                start |-> start, end |-> end]
    /\ ret' \in get_timeline_data(table, category, start, end)
    /\ UNCHANGED zero_pad_year

\* get_timeline_data on the pair normalize_date_range returned, where the
\* database can read both texts as dates
QueryRange(range, tables) ==
    /\ range.kind = "value"
    /\ strptime(range.val[1]).ok /\ strptime(range.val[2]).ok
    /\ \E category \in Categories, table \in tables :
           QueryCall(table, category, range.val[1], range.val[2])

QueryCalls(dates, tables) ==
    \E from_date, to_date \in dates :
        QueryRange(normalize_date_range(from_date, to_date), tables)

CallGetTimelineData ==
    /\ op = "start"
    /\ \E a \in Anchors : QueryCalls(CanonicalDates(a), Tables(a))

NextDates == CallGetDays \/ CallNormalizeDateRange

NextSlice == CallGetTimelineSlice \/ CallGetJsonSlice

NextQuery == CallGetTimelineData

Next == NextDates \/ NextSlice \/ NextQuery

\* the date helpers alone
SpecDates == Init /\ [][NextDates]_vars

\* the slicers alone
SpecSlice == Init /\ [][NextSlice]_vars

\* the query alone
SpecQuery == Init /\ [][NextQuery]_vars

Spec == Init /\ [][Next]_vars

(* ------------------- definitions the properties use -------------------- *)

\* TRUE iff strptime returns (raises nothing)
Parses(s) == strptime(s).ok

\* the day a parsing text denotes, as an ordinal
DayOf(s) == strptime(s).ord

BothParse == Parses(args.from_date) /\ Parses(args.to_date)

\* the list of canonical texts from day hi down to day lo, one day a step
Descending(hi, lo) == [i \in 1..(hi - lo + 1) |-> Canonical(hi - (i - 1))]

\* the first ten characters of a text (all of it when it is shorter)
DatePart(s) == [i \in 1..(IF Len(s) < 10 THEN Len(s) ELSE 10) |-> s[i]]

\* the positions of the records of tl whose date part is wanted
KeptAt(tl, wanted) == {i \in 1..Len(tl) : DatePart(tl[i].timestamp) \in wanted}

\* the j-th smallest element of a set of positions
Nth(K, j) == CHOOSE i \in K : Cardinality({k \in K : k <= i}) = j

\* the value of member k of a JSON object text whose names are distinct
Member(text, k) == (CHOOSE i \in 1..Len(text) : text[i].name = k)

HasMember(text, k) == \E i \in 1..Len(text) : text[i].name = k

TimelineOf(text) == text[Member(text, "timeline")].value

\* an ISO-8601 timestamp YYYY-MM-DDTHH:MM:SSZ with a canonical date
IsIsoTimestamp(ts) ==
    /\ Len(ts) = 20
    /\ Parses(DatePart(ts))
    /\ DatePart(ts) = Canonical(DayOf(DatePart(ts)))
    /\ ts[11] = "T" /\ ts[14] = ":" /\ ts[17] = ":" /\ ts[20] = "Z"
    /\ \A i \in {12, 13, 15, 16, 18, 19} : ts[i] \in Range(DigitChars)

\* the instant an ISO timestamp denotes
InstantOf(ts) ==
    [day |-> DayOf(DatePart(ts)),
     sec |-> NumAt(ts, 12, 2) * 3600 + NumAt(ts, 15, 2) * 60 + NumAt(ts, 18, 2)]

TsLess(a, b) == a.day < b.day \/ (a.day = b.day /\ a.sec < b.sec)

(* ------------------------------ properties ----------------------------- *)

\* C1: for two parsing dates on different days get_days returns the
\* canonical dates from the later day down to the earlier day, one day a
\* step, both ends included (|delta| + 1 elements), and the same list with
\* the arguments swapped.
C1_DescendingInclusive ==
    (op = "get_days" /\ BothParse
        /\ DayOf(args.from_date) # DayOf(args.to_date))
    => LET a  == DayOf(args.from_date)
           b  == DayOf(args.to_date)
           hi == IF a > b THEN a ELSE b
           lo == IF a > b THEN b ELSE a
       IN /\ ret = PyValue(Descending(hi, lo))
          /\ get_days(args.to_date, args.from_date) = ret

\* C2: for two parsing dates on the same day get_days returns the list
\* holding the from_date argument exactly as passed.
C2_SameDayKeepsFromDate ==
    (op = "get_days" /\ BothParse
        /\ DayOf(args.from_date) = DayOf(args.to_date))
    => ret = PyValue(<<args.from_date>>)

\* same day, from_date written unpadded and to_date padded
C2_Witness ==
    /\ op = "get_days" /\ BothParse
    /\ DayOf(args.from_date) = DayOf(args.to_date)
    /\ args.from_date # args.to_date
    /\ args.from_date # Canonical(DayOf(args.from_date))
    /\ ret = PyValue(<<args.from_date>>)

\* C3: for two parsing dates normalize_date_range returns the pair
\* (from_date canonical, to_date plus one day canonical), never reordered.
C3_NormalizedPair ==
    (op = "normalize_date_range" /\ BothParse)
    => /\ ret.kind = "value"
       /\ ret.val[1] = Canonical(DayOf(args.from_date))
       /\ DayOf(args.to_date) + 1 <= MaxOrdinal
       /\ ret.val[2] = Canonical(DayOf(args.to_date) + 1)

\* C4: get_timeline_slice returns exactly the records whose date part is
\* in the wanted dates, in their input order, each as it was passed.
C4_StableFilter ==
    op = "get_timeline_slice"
    => LET K == KeptAt(args.timeline, Range(args.dates_list))
       IN /\ ret.kind = "value"
          /\ Len(ret.val) = Cardinality(K)
          /\ \A j \in 1..Len(ret.val) : ret.val[j] = args.timeline[Nth(K, j)]

\* a two-record timeline whose first record is dropped and second kept, the
\* kept one by a timestamp shorter than ten characters
C4_Witness ==
    /\ op = "get_timeline_slice"
    /\ Len(args.timeline) = 2
    /\ KeptAt(args.timeline, Range(args.dates_list)) = {2}
    /\ Len(args.timeline[2].timestamp) < 10
    /\ Len(args.timeline[1].timestamp) > 10
    /\ ret = PyValue(<<args.timeline[2]>>)

\* C5: slicing an envelope of ISO-stamped records by its own earliest and
\* latest date returns the timeline unchanged.
C5_FullRangeRoundTrip ==
    (/\ op = "get_json_slice"
     /\ HasMember(args.timeline, "timeline")
     /\ TimelineOf(args.timeline) # <<>>
     /\ \A i \in 1..Len(TimelineOf(args.timeline)) :
            IsIsoTimestamp(TimelineOf(args.timeline)[i].timestamp)
     /\ BothParse
     /\ \E i \in 1..Len(TimelineOf(args.timeline)) :
            DatePart(TimelineOf(args.timeline)[i].timestamp) = args.from_date
     /\ \E i \in 1..Len(TimelineOf(args.timeline)) :
            DatePart(TimelineOf(args.timeline)[i].timestamp) = args.to_date
     /\ \A i \in 1..Len(TimelineOf(args.timeline)) :
            LET d == DayOf(DatePart(TimelineOf(args.timeline)[i].timestamp))
            IN DayOf(args.from_date) <= d /\ d <= DayOf(args.to_date))
    => /\ ret.kind = "value"
       /\ HasMember(ret.val, "timeline")
       /\ TimelineOf(ret.val) = TimelineOf(args.timeline)

\* C6: with a date that does not parse get_json_slice returns the envelope
\* with an empty timeline, whatever the timeline held.
C6_InvalidDatesEmptyTimeline ==
    (/\ op = "get_json_slice"
     /\ HasMember(args.timeline, "timeline")
     /\ ~ BothParse)
    => /\ ret.kind = "value"
       /\ HasMember(ret.val, "timeline")
       /\ TimelineOf(ret.val) = <<>>

\* C7: get_days and normalize_date_range never raise, and return None when
\* a date does not parse.
C7_NoneNeverRaise ==
    op \in {"get_days", "normalize_date_range"}
    => /\ ret.kind # "raise"
       /\ (~ BothParse => ret = PyNone)

\* C8: on a pair from normalize_date_range get_timeline_data returns the
\* rows of the category with start <= timestamp < end, ascending.
C8_HalfOpenRange ==
    op = "get_timeline_data"
    => LET halfopen ==
               {row \in args.table :
                   /\ row.milestone = args.category
                   /\ TsLeq(Midnight(args.start), row.timestamp)
                   /\ TsLess(row.timestamp, Midnight(args.end))}
       IN /\ ret.kind = "value"
          /\ \E l \in OrderedListings(halfopen) :
                 ret.val = [i \in 1..Cardinality(halfopen) |->
                               [count     |-> l[i].count,
                                timestamp |-> isoformat(l[i].timestamp) \o <<"Z">>]]

\* C9: get_json_slice, where it returns, leaves every member of the
\* envelope but timeline as it was, adding and removing none.
C9_OtherFieldsUntouched ==
    (op = "get_json_slice" /\ ret.kind = "value")
    => /\ Len(ret.val) = Len(args.timeline)
       /\ \A i \in 1..Len(args.timeline) :
              \E j \in 1..Len(ret.val) :
                  /\ ret.val[j].name = args.timeline[i].name
                  /\ args.timeline[i].name # "timeline"
                         => ret.val[j].value = args.timeline[i].value
       /\ \A j \in 1..Len(ret.val) :
              \E i \in 1..Len(args.timeline) :
                  ret.val[j].name = args.timeline[i].name

\* a slice that dropped a record from an envelope with other members
C9_Witness ==
    /\ op = "get_json_slice" /\ ret.kind = "value"
    /\ Len(args.timeline) = 3
    /\ HasMember(ret.val, "about") /\ HasMember(ret.val, "total")
    /\ Len(TimelineOf(args.timeline)) = 2
    /\ Len(TimelineOf(ret.val)) = 1

\* C10: for canonical dates from_date <= to_date a record with an ISO
\* timestamp t is kept by get_timeline_slice(timeline, get_days(from_date,
\* to_date)) iff start <= t < end for the pair normalize_date_range returns.
C10_PathsAgree ==
    (/\ op = "get_json_slice"
     /\ HasMember(args.timeline, "timeline")
     /\ BothParse
     /\ args.from_date = Canonical(DayOf(args.from_date))
     /\ args.to_date = Canonical(DayOf(args.to_date))
     /\ DayOf(args.from_date) <= DayOf(args.to_date))
    => LET range == normalize_date_range(args.from_date, args.to_date)
       IN /\ range.kind = "value"
          /\ Parses(range.val[1]) /\ Parses(range.val[2])
          /\ ret.kind = "value"
          /\ \A i \in 1..Len(TimelineOf(args.timeline)) :
                 LET r == TimelineOf(args.timeline)[i]
                 IN IsIsoTimestamp(r.timestamp)
                    => ((\E j \in 1..Len(TimelineOf(ret.val)) :
                             TimelineOf(ret.val)[j] = r)
                        <=> (/\ TsLeq(Midnight(range.val[1]), InstantOf(r.timestamp))
                             /\ TsLess(InstantOf(r.timestamp), Midnight(range.val[2]))))

====
